---- MODULE Spec2Model ----
(***************************************************************************)
(* The key-server plugin modules of lmklib:                                *)
(*   lib/key-module/example/pydriver/module.py  (the "Const" driver)       *)
(*   lib/key-module/example/pyfunc/module.py    (the "PyPrint" function)   *)
(*   lib/mcp3008-driver/mcp3008-driver.py       (the MCP3008 ADC driver)   *)
(* Each is a Python module holding one global list as its registry.  The   *)
(* host calls one operation at a time and an operation runs to completion  *)
(* (Spec, SpecCaller, SpecList), or several host threads call into pyfunc  *)
(* at once (SpecThreads).                                                  *)
(***************************************************************************)
EXTENDS Integers, Sequences, FiniteSets, TLC

(***************************************************************************)
(* Bounds of the model.                                                    *)
(***************************************************************************)
MaxReg == 2
MaxLen == 2
MaxEvents == 3
MaxChannel == 1
MaxRaw == 1
NThreads == 2

(***************************************************************************)
(* Python values.  Every value is a record of the same shape so that any   *)
(* two values can be compared: t is the Python type, i the number of an    *)
(* int (0/1 for a bool, the index of a float literal), s the text of a     *)
(* str, a the items of a list or the entries [k, v] of a dict in insertion *)
(* order.  A text is a sequence of symbols; a symbol is a run of           *)
(* characters that the model never splits ("name", "Invalid data").        *)
(***************************************************************************)
PyInt(n) == [t |-> "int", i |-> n, s |-> <<>>, a |-> <<>>]
PyBool(b) == [t |-> "bool", i |-> IF b THEN 1 ELSE 0, s |-> <<>>, a |-> <<>>]
PyFloat(n) == [t |-> "float", i |-> n, s |-> <<>>, a |-> <<>>]
PyStr(c) == [t |-> "str", i |-> 0, s |-> c, a |-> <<>>]
PyNone == [t |-> "NoneType", i |-> 0, s |-> <<>>, a |-> <<>>]
PyList(items) == [t |-> "list", i |-> 0, s |-> <<>>, a |-> items]
PyDict(entries) == [t |-> "dict", i |-> 0, s |-> <<>>, a |-> entries]
Str(x) == PyStr(<<x>>)
Entry(key, val) == [k |-> key, v |-> val]

\* isinstance(v, int): bool is a subclass of int in Python.
isinstance_int(v) == v.t \in {"int", "bool"}
isinstance_str(v) == v.t = "str"
isinstance_list(v) == v.t = "list"

\* The outcome of a call: the value returned, or the exception raised.
Return(v) == [exc |-> "", val |-> v]
Raise(e) == [exc |-> e, val |-> PyNone]

(***************************************************************************)
(* JSON text.  A payload is the sequence of lexical tokens of its text:    *)
(* the six punctuators, string and number literals, true/false/null, and   *)
(* "bad" for a run of characters that is no JSON token.                    *)
(***************************************************************************)
Tok(kind) == [k |-> kind, i |-> 0, s |-> <<>>]
TokInt(n) == [k |-> "int", i |-> n, s |-> <<>>]
TokFloat(n) == [k |-> "float", i |-> n, s |-> <<>>]
TokStr(c) == [k |-> "str", i |-> 0, s |-> c]

\* The text the host writes for a value (what json.dumps would write).
RECURSIVE Dumps(_)
RECURSIVE DumpsItems(_, _)
DumpsItems(a, isDict) ==
    IF a = <<>> THEN <<>>
    ELSE LET one == IF isDict THEN <<TokStr(Head(a).k), Tok(":")>> \o Dumps(Head(a).v)
                    ELSE Dumps(Head(a))
         IN IF Len(a) = 1 THEN one
            ELSE one \o <<Tok(",")>> \o DumpsItems(Tail(a), isDict)

Dumps(v) ==
    CASE v.t = "int" -> <<TokInt(v.i)>>
      [] v.t = "float" -> <<TokFloat(v.i)>>
      [] v.t = "bool" -> <<Tok(IF v.i = 1 THEN "true" ELSE "false")>>
      [] v.t = "NoneType" -> <<Tok("null")>>
      [] v.t = "str" -> <<TokStr(v.s)>>
      [] v.t = "list" -> <<Tok("[")>> \o DumpsItems(v.a, FALSE) \o <<Tok("]")>>
      [] v.t = "dict" -> <<Tok("{")>> \o DumpsItems(v.a, TRUE) \o <<Tok("}")>>

(***************************************************************************)
(* json.loads: a recursive-descent parse of the token sequence.  A parse   *)
(* step yields [ok, val, pos]: whether a value was read, the value, and    *)
(* the index of the first token after it.                                  *)
(***************************************************************************)
ParseFail == [ok |-> FALSE, val |-> PyNone, pos |-> 0]
ParseOk(v, p) == [ok |-> TRUE, val |-> v, pos |-> p]

\* dict[key] = val: a repeated key keeps its place and takes the last value.
DictSet(entries, key, val) ==
    IF \E j \in 1..Len(entries) : entries[j].k = key
    THEN [j \in 1..Len(entries) |->
            IF entries[j].k = key THEN Entry(key, val) ELSE entries[j]]
    ELSE Append(entries, Entry(key, val))

RECURSIVE ParseValue(_, _)
RECURSIVE ParseElems(_, _, _)
RECURSIVE ParseMembers(_, _, _)
ParseElems(toks, p, acc) ==
    LET r == ParseValue(toks, p) IN
    IF ~r.ok \/ r.pos > Len(toks) THEN ParseFail
    ELSE IF toks[r.pos].k = "," THEN ParseElems(toks, r.pos + 1, Append(acc, r.val))
    ELSE IF toks[r.pos].k = "]" THEN ParseOk(PyList(Append(acc, r.val)), r.pos + 1)
    ELSE ParseFail

ParseMembers(toks, p, acc) ==
    IF p + 1 > Len(toks) \/ toks[p].k # "str" \/ toks[p + 1].k # ":" THEN ParseFail
    ELSE LET r == ParseValue(toks, p + 2) IN
         IF ~r.ok \/ r.pos > Len(toks) THEN ParseFail
         ELSE IF toks[r.pos].k = ","
              THEN ParseMembers(toks, r.pos + 1, DictSet(acc, toks[p].s, r.val))
         ELSE IF toks[r.pos].k = "}"
              THEN ParseOk(PyDict(DictSet(acc, toks[p].s, r.val)), r.pos + 1)
         ELSE ParseFail

ParseValue(toks, p) ==
    IF p > Len(toks) THEN ParseFail
    ELSE LET tk == toks[p] IN
         CASE tk.k = "int" -> ParseOk(PyInt(tk.i), p + 1)
           [] tk.k = "float" -> ParseOk(PyFloat(tk.i), p + 1)
           [] tk.k = "str" -> ParseOk(PyStr(tk.s), p + 1)
           [] tk.k = "true" -> ParseOk(PyBool(TRUE), p + 1)
           [] tk.k = "false" -> ParseOk(PyBool(FALSE), p + 1)
           [] tk.k = "null" -> ParseOk(PyNone, p + 1)
           [] tk.k = "[" ->
                IF p + 1 <= Len(toks) /\ toks[p + 1].k = "]"
                THEN ParseOk(PyList(<<>>), p + 2)
                ELSE ParseElems(toks, p + 1, <<>>)
           [] tk.k = "{" ->
                IF p + 1 <= Len(toks) /\ toks[p + 1].k = "}"
                THEN ParseOk(PyDict(<<>>), p + 2)
                ELSE ParseMembers(toks, p + 1, <<>>)
           [] OTHER -> ParseFail

\* Variant: text left over after the value is not looked at.
json_loads_prefix(toks) ==
    LET r == ParseValue(toks, 1) IN
    IF r.ok THEN r ELSE ParseFail

\* json.loads(data): the value, or ok = FALSE where it raises JSONDecodeError
\* (no value, or text left over after the value: "Extra data").
json_loads(toks) ==
    LET r == ParseValue(toks, 1) IN
    IF r.ok /\ r.pos = Len(toks) + 1 THEN r ELSE ParseFail

(***************************************************************************)
(* Python operations the modules use.                                      *)
(***************************************************************************)
Contains(s, sub) ==
    \E j \in 0..(Len(s) - Len(sub)) : SubSeq(s, j + 1, j + Len(sub)) = sub

\* key in data, for a str key: [exc, b].  A dict tests its keys, a list its
\* items, a str its substrings; any other value is not iterable.
py_in(key, data) ==
    CASE data.t = "dict" ->
            [exc |-> "", b |-> \E j \in 1..Len(data.a) : data.a[j].k = key]
      [] data.t = "list" ->
            [exc |-> "", b |-> \E j \in 1..Len(data.a) : data.a[j] = PyStr(key)]
      [] data.t = "str" -> [exc |-> "", b |-> Contains(data.s, key)]
      [] OTHER -> [exc |-> "TypeError", b |-> FALSE]

\* data[key], for a str key: a dict looks the key up; a list or a str takes
\* only integer indices.
py_getitem(data, key) ==
    IF data.t = "dict"
    THEN IF \E j \in 1..Len(data.a) : data.a[j].k = key
         THEN Return((CHOOSE e \in {data.a[j] : j \in 1..Len(data.a)} : e.k = key).v)
         ELSE Raise("KeyError")
    ELSE Raise("TypeError")

\* The position (1-based) that lst[i] reads: a negative i counts from the
\* end; 0 where Python raises IndexError.
py_index(n, i) ==
    IF 0 <= i /\ i < n THEN i + 1
    ELSE IF i < 0 /\ 0 - n <= i THEN n + i + 1
    ELSE 0

\* v == 0
py_is_zero(v) == v.t \in {"int", "bool", "float"} /\ v.i = 0

(***************************************************************************)
(* lib/key-module/example/pydriver/module.py                               *)
(* drv is the module's global list `drivers`.  load_data yields the list   *)
(* after the call and the outcome of the call.                             *)
(***************************************************************************)
\* Variant: fields count as missing only when both are.
pydriver_validate_and(d) ==
    LET hasName == py_in(<<"name">>, d)
        hasState == py_in(<<"state">>, d)
        nm == py_getitem(d, <<"name">>)
        st == py_getitem(d, <<"state">>)
    IN  IF hasName.exc # "" THEN Raise(hasName.exc)
        ELSE IF ~hasName.b /\ ~hasState.b THEN Return(Str("Missing fields in data"))
        ELSE IF nm.exc # "" THEN Raise(nm.exc)
        ELSE IF st.exc # "" THEN Raise(st.exc)
        ELSE IF ~isinstance_str(nm.val) \/ ~isinstance_list(st.val)
             THEN Return(Str("Wrong data field types"))
        ELSE IF \E j \in 1..Len(st.val.a) : ~isinstance_int(st.val.a[j])
             THEN Return(Str("State must contain only ints"))
        ELSE Return(PyNone)

pydriver_validate(d) ==
    LET hasName == py_in(<<"name">>, d)
        hasState == py_in(<<"state">>, d)
        nm == py_getitem(d, <<"name">>)
        st == py_getitem(d, <<"state">>)
    IN  IF hasName.exc # "" THEN Raise(hasName.exc)
        ELSE IF ~hasName.b \/ ~hasState.b THEN Return(Str("Missing fields in data"))
        ELSE IF nm.exc # "" THEN Raise(nm.exc)
        ELSE IF ~isinstance_str(nm.val) \/ ~isinstance_list(st.val)
             THEN Return(Str("Wrong data field types"))
        ELSE IF \E j \in 1..Len(st.val.a) : ~isinstance_int(st.val.a[j])
             THEN Return(Str("State must contain only ints"))
        ELSE Return(PyNone)

\* Variant: the parsed payload is appended before it is validated.
pydriver_load_data_eager(drv, name, data) ==
    IF name = <<"Const">>
    THEN LET p == json_loads(data) IN
         IF ~p.ok THEN [drivers |-> drv, ret |-> Return(Str("Invalid data"))]
         ELSE LET chk == pydriver_validate(p.val) IN
              IF chk # Return(PyNone) THEN [drivers |-> Append(drv, p.val), ret |-> chk]
              ELSE [drivers |-> Append(drv, p.val),
                    ret |-> Return(PyInt(Len(Append(drv, p.val)) - 1))]
    ELSE [drivers |-> drv, ret |-> Return(Str("Unknown driver"))]

pydriver_load_data(drv, name, data) ==
    IF name = <<"Const">>
    THEN LET p == json_loads(data) IN
         IF ~p.ok THEN [drivers |-> drv, ret |-> Return(Str("Invalid data"))]
         ELSE LET chk == pydriver_validate(p.val) IN
              IF chk # Return(PyNone) THEN [drivers |-> drv, ret |-> chk]
              ELSE [drivers |-> Append(drv, p.val),
                    ret |-> Return(PyInt(Len(Append(drv, p.val)) - 1))]
    ELSE [drivers |-> drv, ret |-> Return(Str("Unknown driver"))]

\* Variant: the bound check lets driver_id = len(drivers) through.
pydriver_name_le(drv, driver_id) ==
    IF driver_id <= Len(drv)
    THEN IF py_index(Len(drv), driver_id) = 0 THEN Raise("IndexError")
         ELSE Return(PyDict(<<
                Entry(<<"ok">>, py_getitem(drv[py_index(Len(drv), driver_id)], <<"name">>).val),
                Entry(<<"err">>, PyNone)>>))
    ELSE Return(PyDict(<<Entry(<<"err">>, Str("Unknown id")), Entry(<<"ok">>, PyNone)>>))

pydriver_name(drv, driver_id) ==
    IF driver_id < Len(drv)
    THEN IF py_index(Len(drv), driver_id) = 0 THEN Raise("IndexError")
         ELSE Return(PyDict(<<
                Entry(<<"ok">>, py_getitem(drv[py_index(Len(drv), driver_id)], <<"name">>).val),
                Entry(<<"err">>, PyNone)>>))
    ELSE Return(PyDict(<<Entry(<<"err">>, Str("Unknown id")), Entry(<<"ok">>, PyNone)>>))

\* Variant: the instance before the one asked for is read.
pydriver_poll_prev(drv, driver_id) ==
    IF driver_id < Len(drv)
    THEN IF py_index(Len(drv), driver_id - 1) = 0 THEN Raise("IndexError")
         ELSE py_getitem(drv[py_index(Len(drv), driver_id - 1)], <<"state">>)
    ELSE Return(Str("Unknown id"))

pydriver_poll(drv, driver_id) ==
    IF driver_id < Len(drv)
    THEN IF py_index(Len(drv), driver_id) = 0 THEN Raise("IndexError")
         ELSE py_getitem(drv[py_index(Len(drv), driver_id)], <<"state">>)
    ELSE Return(Str("Unknown id"))

(***************************************************************************)
(* lib/key-module/example/pyfunc/module.py                                 *)
(* fn is the module's global list `func` of (data, prev_state) pairs; out  *)
(* is the standard output, one text per printed line.                      *)
(***************************************************************************)
\* Variant: the type name is not looked at.
pyfunc_load_data_anytype(fn, name, data) ==
    [func |-> Append(fn, [data |-> data, prev_state |-> PyInt(0)]),
     ret |-> Return(PyInt(Len(Append(fn, [data |-> data, prev_state |-> PyInt(0)])) - 1))]

pyfunc_load_data(fn, name, data) ==
    IF name = <<"PyPrint">>
    THEN [func |-> Append(fn, [data |-> data, prev_state |-> PyInt(0)]),
          ret |-> Return(PyInt(Len(Append(fn, [data |-> data, prev_state |-> PyInt(0)])) - 1))]
    ELSE [func |-> fn, ret |-> Return(Str("Unknown function"))]

\* Variant: the previous state is not looked at.
pyfunc_edge_level(state, prev_state) == ~py_is_zero(state)

\* state != 0 and prev_state == 0
pyfunc_edge(state, prev_state) == ~py_is_zero(state) /\ py_is_zero(prev_state)

\* Variant: the state is stored only by a call that prints.
pyfunc_event_lazy(fn, out, func_id, state) ==
    IF func_id < Len(fn)
    THEN LET pos == py_index(Len(fn), func_id) IN
         IF pos = 0 THEN [func |-> fn, stdout |-> out, ret |-> Raise("IndexError")]
         ELSE IF pyfunc_edge(state, fn[pos].prev_state)
              THEN IF fn[pos].data.t # "str"
                   THEN [func |-> fn, stdout |-> out, ret |-> Raise("TypeError")]
                   ELSE [func |-> [fn EXCEPT ![pos].prev_state = state],
                         stdout |-> Append(out, <<"PyPrint: ">> \o fn[pos].data.s),
                         ret |-> Return(PyNone)]
              ELSE [func |-> fn, stdout |-> out, ret |-> Return(PyNone)]
    ELSE [func |-> fn, stdout |-> out, ret |-> Return(Str("Invalid id"))]

\* Variant: the line printed carries the data of the first instance.
pyfunc_event_first(fn, out, func_id, state) ==
    IF func_id < Len(fn)
    THEN LET pos == py_index(Len(fn), func_id) IN
         IF pos = 0 THEN [func |-> fn, stdout |-> out, ret |-> Raise("IndexError")]
         ELSE IF pyfunc_edge(state, fn[pos].prev_state)
              THEN IF fn[1].data.t # "str"
                   THEN [func |-> fn, stdout |-> out, ret |-> Raise("TypeError")]
                   ELSE [func |-> [fn EXCEPT ![pos].prev_state = state],
                         stdout |-> Append(out, <<"PyPrint: ">> \o fn[1].data.s),
                         ret |-> Return(PyNone)]
              ELSE [func |-> [fn EXCEPT ![pos].prev_state = state],
                    stdout |-> out, ret |-> Return(PyNone)]
    ELSE [func |-> fn, stdout |-> out, ret |-> Return(Str("Invalid id"))]

pyfunc_event(fn, out, func_id, state) ==
    IF func_id < Len(fn)
    THEN LET pos == py_index(Len(fn), func_id) IN
         IF pos = 0 THEN [func |-> fn, stdout |-> out, ret |-> Raise("IndexError")]
         ELSE IF pyfunc_edge(state, fn[pos].prev_state)
              THEN IF fn[pos].data.t # "str"
                   THEN [func |-> fn, stdout |-> out, ret |-> Raise("TypeError")]
                   ELSE [func |-> [fn EXCEPT ![pos].prev_state = state],
                         stdout |-> Append(out, <<"PyPrint: ">> \o fn[pos].data.s),
                         ret |-> Return(PyNone)]
              ELSE [func |-> [fn EXCEPT ![pos].prev_state = state],
                    stdout |-> out, ret |-> Return(PyNone)]
    ELSE [func |-> fn, stdout |-> out, ret |-> Return(Str("Invalid id"))]

(***************************************************************************)
(* lib/mcp3008-driver/mcp3008-driver.py                                    *)
(* drv is the module's global list `drivers` of channel lists.  MCP3008 is *)
(* gpiozero's device class: the model gives the converter the channels     *)
(* 0..MaxChannel, a constructor that raises for any other channel and,     *)
(* when hw is FALSE, for want of the hardware; raw is the value each       *)
(* channel's input reads at the moment of the call.                        *)
(***************************************************************************)
MCP3008(channel, d) ==
    [channel |-> channel.i,
     clock_pin |-> py_getitem(d, <<"clock_pin">>).val,
     mosi_pin |-> py_getitem(d, <<"mosi_pin">>).val,
     miso_pin |-> py_getitem(d, <<"miso_pin">>).val,
     select_pin |-> py_getitem(d, <<"select_pin">>).val]

MCP3008_accepts(channel, hw) ==
    hw /\ isinstance_int(channel) /\ channel.i \in 0..MaxChannel

McpFields == <<<<"clock_pin">>, <<"mosi_pin">>, <<"miso_pin">>, <<"select_pin">>, <<"channels">>>>

\* What `for channel in v` walks through: [exc, items].
py_iter(v) ==
    CASE v.t = "list" -> [exc |-> "", items |-> v.a]
      [] v.t = "str" -> [exc |-> "", items |-> [j \in 1..Len(v.s) |-> PyStr(<<v.s[j]>>)]]
      [] v.t = "dict" -> [exc |-> "", items |-> [j \in 1..Len(v.a) |-> PyStr(v.a[j].k)]]
      [] OTHER -> [exc |-> "TypeError", items |-> <<>>]

\* Variant: the channels opened before the constructor raises are kept
\* as an instance.
mcp3008_load_data_partial(drv, data, hw) ==
    LET p == json_loads(data) IN
    IF ~p.ok THEN [drivers |-> drv, ret |-> Return(Str("Invalid data"))]
    ELSE LET d == p.val
             first == py_in(McpFields[1], d)
             chs == py_getitem(d, <<"channels">>)
             it == py_iter(chs.val)
             channels == [j \in 1..Len(it.items) |-> MCP3008(it.items[j], d)]
         IN  IF first.exc # "" THEN [drivers |-> drv, ret |-> Raise(first.exc)]
             ELSE IF \E j \in 1..Len(McpFields) : ~py_in(McpFields[j], d).b
                  THEN [drivers |-> drv, ret |-> Return(Str("Missing fields in data"))]
             ELSE IF chs.exc # "" THEN [drivers |-> drv, ret |-> Raise(chs.exc)]
             ELSE IF it.exc # "" THEN [drivers |-> drv, ret |-> Raise(it.exc)]
             ELSE IF \E j \in 1..Len(it.items) : ~MCP3008_accepts(it.items[j], hw)
                  THEN [drivers |-> Append(drv, <<>>), ret |-> Raise("GPIOZeroError")]
             ELSE [drivers |-> Append(drv, channels),
                   ret |-> Return(PyInt(Len(Append(drv, channels)) - 1))]

mcp3008_load_data(drv, data, hw) ==
    LET p == json_loads(data) IN
    IF ~p.ok THEN [drivers |-> drv, ret |-> Return(Str("Invalid data"))]
    ELSE LET d == p.val
             first == py_in(McpFields[1], d)
             chs == py_getitem(d, <<"channels">>)
             it == py_iter(chs.val)
             channels == [j \in 1..Len(it.items) |-> MCP3008(it.items[j], d)]
         IN  IF first.exc # "" THEN [drivers |-> drv, ret |-> Raise(first.exc)]
             ELSE IF \E j \in 1..Len(McpFields) : ~py_in(McpFields[j], d).b
                  THEN [drivers |-> drv, ret |-> Return(Str("Missing fields in data"))]
             ELSE IF chs.exc # "" THEN [drivers |-> drv, ret |-> Raise(chs.exc)]
             ELSE IF it.exc # "" THEN [drivers |-> drv, ret |-> Raise(it.exc)]
             ELSE IF \E j \in 1..Len(it.items) : ~MCP3008_accepts(it.items[j], hw)
                  THEN [drivers |-> drv, ret |-> Raise("GPIOZeroError")]
             ELSE [drivers |-> Append(drv, channels),
                   ret |-> Return(PyInt(Len(Append(drv, channels)) - 1))]

mcp3008_poll(drv, raw, driver_id) ==
    IF driver_id < Len(drv)
    THEN LET pos == py_index(Len(drv), driver_id) IN
         IF pos = 0 THEN Raise("IndexError")
         ELSE Return(PyList([j \in 1..Len(drv[pos]) |-> PyInt(raw[drv[pos][j].channel])]))
    ELSE Return(Str("Unknown id"))

\* Variant: set checks the id as poll does.
mcp3008_set_checked(drv, driver_id, idx, state) ==
    IF driver_id < Len(drv)
    THEN [drivers |-> drv, ret |-> Return(PyNone)]
    ELSE [drivers |-> drv, ret |-> Return(Str("Unknown id"))]

\* def set(driver_id, idx, state): pass
mcp3008_set(drv, driver_id, idx, state) ==
    [drivers |-> drv, ret |-> Return(PyNone)]

(***************************************************************************)
(* What the host sends.                                                    *)
(***************************************************************************)
DriverTypes == {<<"Const">>, <<"Other">>, <<"PyPrint">>}
FuncTypes == {<<"PyPrint">>, <<"Other">>, <<"Const">>}
Names == {<<"a">>, <<"Layer0">>}
FuncData == {PyStr(<<"hi">>), PyStr(<<"yo">>)}
Ids == (0 - (MaxReg + 1))..(MaxReg + 1)
\* The states an event carries: zero, a positive and a negative number.
Signals == {PyInt(0), PyInt(5), PyInt(0 - 3)}

\* Integer state lists of every length 0..MaxLen: the first n of
\* 0, 1, -1, 0, 1, -1, ...
IntStates == {[j \in 1..n |-> (j % 3) - 1] : n \in 0..MaxLen}
IntList(st) == PyList([j \in 1..Len(st) |-> PyInt(st[j])])
ConstValue(nm, st) ==
    PyDict(<<Entry(<<"name">>, PyStr(nm)), Entry(<<"state">>, IntList(st))>>)
ConstPayload(nm, st) == Dumps(ConstValue(nm, st))
ValidConst == {ConstPayload(nm, st) : nm \in Names, st \in IntStates}

\* Texts that are not JSON: nothing, a stray word, an unclosed object, a
\* trailing comma, a key that is no string, text after the value.
Malformed ==
    { <<>>,
      <<Tok("bad")>>,
      <<Tok("{")>>,
      <<Tok("{"), TokStr(<<"name">>), Tok(":"), TokStr(<<"a">>), Tok(","), Tok("}")>>,
      <<Tok("["), TokInt(1), Tok(","), Tok("]")>>,
      <<Tok("{"), TokInt(1), Tok(":"), TokInt(2), Tok("}")>>,
      <<Tok("{"), TokStr(<<"state">>), Tok(":"), Tok("["), TokInt(0), Tok("}")>>,
      ConstPayload(<<"a">>, <<0>>) \o <<Tok("}")>> }

\* JSON values that are not objects.
NonMapValues ==
    { PyInt(5), PyFloat(1), PyBool(TRUE), PyNone,
      PyStr(<<"abc">>), PyStr(<<"x", "name", "state">>),
      PyList(<<>>), PyList(<<PyInt(1)>>),
      PyList(<<PyStr(<<"name">>), PyStr(<<"state">>)>>) }
NonMap == {Dumps(v) : v \in NonMapValues}

\* Objects over the keys in `keys` (in that order), each key holding one of
\* the values of `vals`.
RECURSIVE ObjectsOver(_, _)
ObjectsOver(keys, vals) ==
    IF keys = <<>> THEN {<<>>}
    ELSE {<<Entry(Head(keys), v)>> \o rest : v \in vals, rest \in ObjectsOver(Tail(keys), vals)}
SubSeqs(keys) ==
    LET Pick(S) == [j \in 1..Cardinality(S) |->
                      keys[CHOOSE x \in S : Cardinality({y \in S : y < x}) = j - 1]]
    IN {Pick(S) : S \in SUBSET (1..Len(keys))}

FieldVals == {PyStr(<<"a">>), PyList(<<PyInt(0)>>)}
ConstMissingValues ==
    UNION {{PyDict(e) : e \in ObjectsOver(ks, FieldVals)} :
             ks \in {k \in SubSeqs(<<<<"name">>, <<"state">>, <<"other">>>>) :
                       ~(\E j \in 1..Len(k) : k[j] = <<"name">>)
                       \/ ~(\E j \in 1..Len(k) : k[j] = <<"state">>)}}
ConstMissing == {Dumps(v) : v \in ConstMissingValues}

\* Objects with both keys where a field has the wrong type.
NonInts ==
    { PyStr(<<"x">>), PyFloat(1), PyBool(TRUE), PyNone, PyList(<<PyInt(1)>>), PyDict(<<>>) }
BadStates ==
    {PyList(<<v>>) : v \in NonInts}
    \cup {PyList(<<PyInt(0), v>>) : v \in NonInts}
    \cup {PyList(<<v, PyInt(0), PyInt(1)>>) : v \in {PyStr(<<"x">>), PyFloat(1)}}
    \cup {PyInt(0), PyStr(<<"x">>), PyNone, PyDict(<<>>), PyBool(TRUE)}
BadNames == {PyInt(0), PyNone, PyList(<<>>), PyBool(TRUE)}
ConstWrongValues ==
    {PyDict(<<Entry(<<"name">>, PyStr(<<"a">>)), Entry(<<"state">>, st)>>) : st \in BadStates}
    \cup {PyDict(<<Entry(<<"name">>, nm), Entry(<<"state">>, IntList(<<0>>))>>) : nm \in BadNames}
ConstWrong == {Dumps(v) : v \in ConstWrongValues}

ConstPayloads == ValidConst \cup Malformed \cup NonMap \cup ConstMissing \cup ConstWrong

\* MCP3008 payloads: channel lists in ascending order over 0..MaxChannel.
ChannelLists == SubSeqs([j \in 1..(MaxChannel + 1) |-> j - 1])
McpValue(keys, chs) ==
    PyDict([j \in 1..Len(keys) |->
              Entry(keys[j], IF keys[j] = <<"channels">> THEN chs ELSE PyInt(7 + j))])
McpPayload(chs) == Dumps(McpValue(McpFields, IntList(chs)))
ValidMcp == {McpPayload(chs) : chs \in ChannelLists}
McpMissing ==
    {Dumps(McpValue(ks, chs)) :
       ks \in {k \in SubSeqs(McpFields) : Len(k) \in {0, 1, Len(McpFields) - 1}},
       chs \in {IntList(<<0>>), PyNone}}
McpWrong ==
    {Dumps(McpValue(McpFields, v)) :
       v \in {PyInt(0), PyNone, PyStr(<<"0">>), IntList(<<MaxChannel + 1>>),
              PyList(<<PyStr(<<"x">>)>>), PyList(<<PyInt(0), PyNone>>)}}
McpPayloads == ValidMcp \cup Malformed \cup NonMap \cup McpMissing \cup McpWrong

(***************************************************************************)
(* The state.                                                              *)
(*   module       which of the three Python modules the host has loaded    *)
(*   drivers      pydriver's global list                                   *)
(*   func         pyfunc's global list                                     *)
(*   mcp_drivers  mcp3008-driver's global list                             *)
(*   stdout       the lines pyfunc has printed                             *)
(*   call, ret    the call the host has made and its outcome, until the    *)
(*                host takes the outcome (call.op = "none" between calls)  *)
(*   threads      per host thread that calls into pyfunc on its own: where *)
(*                it is in its call (pc), the call's arguments, the locals *)
(*                data and prev_state, and the outcome                     *)
(* History of the run, read by the properties only:                        *)
(*   issued       per load_data that returned a handle: the handle and     *)
(*                the payload sent                                         *)
(*   lastSig      per function handle: the state passed to the latest      *)
(*                event on it (0 before the first)                         *)
(*   fires, edges per function handle: the lines its events printed and    *)
(*                the 0 -> nonzero steps in the states passed to it        *)
(*   negUsed      whether an event carried a negative id                   *)
(*   nEvents      the event calls made                                     *)
(*   loadFailed   whether a load_data has ended without a handle           *)
(***************************************************************************)
VARIABLES module, drivers, func, mcp_drivers, stdout, call, ret, threads,
          issued, lastSig, fires, edges, negUsed, nEvents, loadFailed

vars == <<module, drivers, func, mcp_drivers, stdout, call, ret, threads,
          issued, lastSig, fires, edges, negUsed, nEvents, loadFailed>>
registries == <<drivers, func, mcp_drivers>>
history == <<issued, lastSig, fires, edges, negUsed, nEvents, loadFailed>>

NoCall ==
    [op |-> "none", name |-> <<>>, data |-> <<>>, arg |-> PyNone, id |-> 0, idx |-> 0]
Call(op, name, data, arg, id, idx) ==
    [op |-> op, name |-> name, data |-> data, arg |-> arg, id |-> id, idx |-> idx]
Empty == [x \in {} |-> 0]
Threads == 1..NThreads
Idle ==
    [pc |-> "idle", id |-> 0, arg |-> PyNone, data |-> PyNone,
     prev_state |-> PyNone, ret |-> Return(PyNone)]

Init ==
    /\ module \in {"pydriver", "pyfunc", "mcp3008"}
    /\ drivers = <<>>
    /\ func = <<>>
    /\ mcp_drivers = <<>>
    /\ stdout = <<>>
    /\ call = NoCall
    /\ threads = [t \in Threads |-> Idle]
    /\ ret = Return(PyNone)
    /\ issued = <<>>
    /\ lastSig = Empty
    /\ fires = Empty
    /\ edges = Empty
    /\ negUsed = FALSE
    /\ nEvents = 0
    /\ loadFailed = FALSE

\* A load_data that returned a handle is entered in the history.
GaveHandle(r) == r.exc = "" /\ r.val.t = "int"
Issue(r, data, arg) ==
    IF GaveHandle(r)
    THEN Append(issued, [h |-> r.val.i, data |-> data, arg |-> arg])
    ELSE issued

PyDriverLoad ==
    \E name \in DriverTypes, data \in ConstPayloads :
        LET r == pydriver_load_data(drivers, name, data) IN
        /\ module = "pydriver" /\ call.op = "none"
        /\ Len(r.drivers) <= MaxReg
        /\ drivers' = r.drivers
        /\ ret' = r.ret
        /\ call' = Call("load_data", name, data, PyNone, 0, 0)
        /\ issued' = Issue(r.ret, data, PyNone)
        /\ loadFailed' = (loadFailed \/ ~GaveHandle(r.ret))
        /\ UNCHANGED <<module, threads, func, mcp_drivers, stdout,
                       lastSig, fires, edges, negUsed, nEvents>>

PyDriverName ==
    \E id \in Ids :
        /\ module = "pydriver" /\ call.op = "none"
        /\ ret' = pydriver_name(drivers, id)
        /\ call' = Call("name", <<>>, <<>>, PyNone, id, 0)
        /\ UNCHANGED <<module, threads, registries, stdout, history>>

PyDriverPoll ==
    \E id \in Ids :
        /\ module = "pydriver" /\ call.op = "none"
        /\ ret' = pydriver_poll(drivers, id)
        /\ call' = Call("poll", <<>>, <<>>, PyNone, id, 0)
        /\ UNCHANGED <<module, threads, registries, stdout, history>>

PyFuncLoad ==
    \E name \in FuncTypes, data \in FuncData :
        LET r == pyfunc_load_data(func, name, data) IN
        /\ module = "pyfunc" /\ call.op = "none"
        /\ Len(r.func) <= MaxReg
        /\ func' = r.func
        /\ ret' = r.ret
        /\ call' = Call("load_data", name, <<>>, data, 0, 0)
        /\ issued' = Issue(r.ret, <<>>, data)
        /\ loadFailed' = (loadFailed \/ ~GaveHandle(r.ret))
        /\ IF GaveHandle(r.ret)
           THEN /\ lastSig' = (r.ret.val.i :> 0) @@ lastSig
                /\ fires' = (r.ret.val.i :> 0) @@ fires
                /\ edges' = (r.ret.val.i :> 0) @@ edges
           ELSE UNCHANGED <<lastSig, fires, edges>>
        /\ UNCHANGED <<module, threads, drivers, mcp_drivers, stdout, negUsed, nEvents>>

PyFuncEvent ==
    \E id \in Ids, state \in Signals :
        LET r == pyfunc_event(func, stdout, id, state)
            printed == Len(r.stdout) - Len(stdout)
            rising == IF state.i # 0 /\ lastSig[id] = 0 THEN 1 ELSE 0
        IN
        /\ module = "pyfunc" /\ call.op = "none"
        /\ nEvents < MaxEvents
        /\ func' = r.func
        /\ stdout' = r.stdout
        /\ ret' = r.ret
        /\ call' = Call("event", <<>>, <<>>, state, id, 0)
        /\ nEvents' = nEvents + 1
        /\ negUsed' = (negUsed \/ id < 0)
        /\ IF id \in DOMAIN lastSig
           THEN /\ lastSig' = [lastSig EXCEPT ![id] = state.i]
                /\ fires' = [fires EXCEPT ![id] = @ + printed]
                /\ edges' = [edges EXCEPT ![id] = @ + rising]
           ELSE UNCHANGED <<lastSig, fires, edges>>
        /\ UNCHANGED <<module, threads, drivers, mcp_drivers, issued, loadFailed>>

McpLoad ==
    \E data \in McpPayloads, hw \in BOOLEAN :
        LET r == mcp3008_load_data(mcp_drivers, data, hw) IN
        /\ module = "mcp3008" /\ call.op = "none"
        /\ Len(r.drivers) <= MaxReg
        /\ mcp_drivers' = r.drivers
        /\ ret' = r.ret
        /\ call' = Call("load_data", <<>>, data, PyNone, 0, 0)
        /\ issued' = Issue(r.ret, data, PyNone)
        /\ loadFailed' = (loadFailed \/ ~GaveHandle(r.ret))
        /\ UNCHANGED <<module, threads, drivers, func, stdout,
                       lastSig, fires, edges, negUsed, nEvents>>

Readings == [0..MaxChannel -> 0..MaxRaw]

McpPoll ==
    \E id \in Ids, raw \in Readings :
        /\ module = "mcp3008" /\ call.op = "none"
        /\ ret' = mcp3008_poll(mcp_drivers, raw, id)
        /\ call' = Call("poll", <<>>, <<>>, PyNone, id, 0)
        /\ UNCHANGED <<module, threads, registries, stdout, history>>

McpSet ==
    \E id \in Ids, idx \in 0..(MaxChannel + 1), state \in 0..MaxRaw :
        LET r == mcp3008_set(mcp_drivers, id, idx, state) IN
        /\ module = "mcp3008" /\ call.op = "none"
        /\ mcp_drivers' = r.drivers
        /\ ret' = r.ret
        /\ call' = Call("set", <<>>, <<>>, PyInt(state), id, idx)
        /\ UNCHANGED <<module, threads, drivers, func, stdout, history>>

\* The host takes the outcome; the next call may follow.
HostReturn ==
    /\ call.op # "none"
    /\ call' = NoCall
    /\ ret' = Return(PyNone)
    /\ UNCHANGED <<module, threads, registries, stdout, history>>

Next ==
    \/ PyDriverLoad
    \/ PyDriverName
    \/ PyDriverPoll
    \/ PyFuncLoad
    \/ PyFuncEvent
    \/ McpLoad
    \/ McpPoll
    \/ McpSet
    \/ HostReturn

Spec == Init /\ [][Next]_vars

(***************************************************************************)
(* The caller of pydriver's poll.  poll returns drivers[driver_id]["state"],*)
(* the list object the registry holds, so what the caller does to the list *)
(* it was handed is done to the instance.  The caller changes an element,  *)
(* appends one or removes one, and writes the value 9, which no payload    *)
(* holds; it edits a list until the list holds a 9.                        *)
(***************************************************************************)
CallerEdits(lst) ==
    IF \E j \in 1..Len(lst.a) : lst.a[j] = PyInt(9) THEN {}
    ELSE {PyList(Append(lst.a, PyInt(9)))}
         \cup (IF lst.a = <<>> THEN {}
               ELSE {PyList([lst.a EXCEPT ![1] = PyInt(9)]),
                     PyList(SubSeq(lst.a, 1, Len(lst.a) - 1))})

CallerMutate ==
    /\ module = "pydriver"
    /\ call.op = "poll" /\ ret.exc = "" /\ ret.val.t = "list"
    /\ \E edited \in CallerEdits(ret.val) :
          /\ drivers' = [drivers EXCEPT ![py_index(Len(drivers), call.id)] =
                            PyDict(DictSet(@.a, <<"state">>, edited))]
          /\ ret' = Return(edited)
    /\ UNCHANGED <<module, threads, func, mcp_drivers, stdout, call, history>>

InitCaller == Init /\ module = "pydriver"

NextCaller ==
    \/ PyDriverLoad
    \/ PyDriverName
    \/ PyDriverPoll
    \/ HostReturn
    \/ CallerMutate

SpecCaller == InitCaller /\ [][NextCaller]_vars

(***************************************************************************)
(* The function interface documents event's state as a list of ints.      *)
(* These are the events a host sends that follows it: an empty list, a     *)
(* list of zeros, lists that hold a nonzero.  In this specification        *)
(* lastSig is 1 when the latest list passed to a handle held a nonzero and *)
(* 0 when it held none, and edges counts the steps of that signal from 0   *)
(* to 1.                                                                   *)
(***************************************************************************)
ListSignals ==
    {PyList(<<>>), PyList(<<PyInt(0)>>), PyList(<<PyInt(0), PyInt(0)>>),
     PyList(<<PyInt(0), PyInt(5)>>), PyList(<<PyInt(0 - 3)>>)}

AnyNonzero(state) == \E j \in 1..Len(state.a) : ~py_is_zero(state.a[j])

PyFuncEventList ==
    \E id \in Ids, state \in ListSignals :
        LET r == pyfunc_event(func, stdout, id, state)
            printed == Len(r.stdout) - Len(stdout)
            rising == IF AnyNonzero(state) /\ lastSig[id] = 0 THEN 1 ELSE 0
        IN
        /\ module = "pyfunc" /\ call.op = "none"
        /\ nEvents < MaxEvents
        /\ func' = r.func
        /\ stdout' = r.stdout
        /\ ret' = r.ret
        /\ call' = Call("event", <<>>, <<>>, state, id, 0)
        /\ nEvents' = nEvents + 1
        /\ negUsed' = (negUsed \/ id < 0)
        /\ IF id \in DOMAIN lastSig
           THEN /\ lastSig' = [lastSig EXCEPT ![id] = IF AnyNonzero(state) THEN 1 ELSE 0]
                /\ fires' = [fires EXCEPT ![id] = @ + printed]
                /\ edges' = [edges EXCEPT ![id] = @ + rising]
           ELSE UNCHANGED <<lastSig, fires, edges>>
        /\ UNCHANGED <<module, threads, drivers, mcp_drivers, issued, loadFailed>>

InitList == Init /\ module = "pyfunc"

NextList ==
    \/ PyFuncLoad
    \/ PyFuncEventList
    \/ HostReturn

SpecList == InitList /\ [][NextList]_vars

(***************************************************************************)
(* Host threads that call pyfunc's load_data and event at the same time.   *)
(* The module takes no lock, so the interpreter may switch threads between *)
(* any two statements of a call; each action below is one statement (or    *)
(* the statements up to the next one that touches `func` or the output).   *)
(* In this specification lastSig, fires and edges are kept per position    *)
(* of `func` from the moment of the append: fires counts the lines printed *)
(* for it and edges the writes that take its stored prev_state from zero   *)
(* to a nonzero state.                                                     *)
(***************************************************************************)
ThreadIds == 0..MaxReg

\* load_data, lines 3-4: the test of the name and func.append((data, 0)).
ThreadLoadAppend(t) ==
    \E name \in FuncTypes, data \in FuncData :
        /\ threads[t].pc = "idle"
        /\ Len(func) < MaxReg
        /\ IF name = <<"PyPrint">>
           THEN /\ func' = Append(func, [data |-> data, prev_state |-> PyInt(0)])
                /\ threads' = [threads EXCEPT ![t] = [Idle EXCEPT !.pc = "appended", !.arg = data]]
                /\ lastSig' = (Len(func) :> 0) @@ lastSig
                /\ fires' = (Len(func) :> 0) @@ fires
                /\ edges' = (Len(func) :> 0) @@ edges
                /\ UNCHANGED loadFailed
           ELSE /\ threads' = [threads EXCEPT ![t] =
                       [Idle EXCEPT !.pc = "done", !.arg = data,
                                    !.ret = Return(Str("Unknown function"))]]
                /\ loadFailed' = TRUE
                /\ UNCHANGED <<func, lastSig, fires, edges>>
        /\ UNCHANGED <<module, drivers, mcp_drivers, stdout, call, ret,
                       issued, negUsed, nEvents>>

\* load_data, line 5: return len(func) - 1.
ThreadLoadReturn(t) ==
    /\ threads[t].pc = "appended"
    /\ threads' = [threads EXCEPT ![t].pc = "done",
                                  ![t].ret = Return(PyInt(Len(func) - 1))]
    /\ issued' = Append(issued, [h |-> Len(func) - 1, data |-> <<>>, arg |-> threads[t].arg])
    /\ UNCHANGED <<module, registries, stdout, call, ret,
                   lastSig, fires, edges, negUsed, nEvents, loadFailed>>

\* event, lines 10-11: the test of the id and data, prev_state = func[func_id].
ThreadEventRead(t) ==
    \E id \in ThreadIds, state \in Signals :
        /\ threads[t].pc = "idle"
        /\ nEvents < MaxEvents
        /\ nEvents' = nEvents + 1
        /\ threads' = [threads EXCEPT ![t] =
              IF id < Len(func)
              THEN [pc |-> "read", id |-> id, arg |-> state,
                    data |-> func[py_index(Len(func), id)].data,
                    prev_state |-> func[py_index(Len(func), id)].prev_state,
                    ret |-> Return(PyNone)]
              ELSE [Idle EXCEPT !.pc = "done", !.id = id, !.arg = state,
                                !.ret = Return(Str("Invalid id"))]]
        /\ UNCHANGED <<module, registries, stdout, call, ret,
                       issued, lastSig, fires, edges, negUsed, loadFailed>>

\* event, lines 12-13: the test of the edge and the print.
ThreadEventPrint(t) ==
    /\ threads[t].pc = "read"
    /\ threads' = [threads EXCEPT ![t].pc = "tested"]
    /\ IF pyfunc_edge(threads[t].arg, threads[t].prev_state)
       THEN /\ stdout' = Append(stdout, <<"PyPrint: ">> \o threads[t].data.s)
            /\ fires' = [fires EXCEPT ![threads[t].id] = @ + 1]
       ELSE UNCHANGED <<stdout, fires>>
    /\ UNCHANGED <<module, registries, call, ret,
                   issued, lastSig, edges, negUsed, nEvents, loadFailed>>

\* event, line 14: func[func_id] = (data, state), and the return of None.
ThreadEventWrite(t) ==
    LET pos == py_index(Len(func), threads[t].id) IN
    /\ threads[t].pc = "tested"
    /\ func' = [func EXCEPT ![pos] = [data |-> threads[t].data, prev_state |-> threads[t].arg]]
    /\ threads' = [threads EXCEPT ![t].pc = "done", ![t].ret = Return(PyNone)]
    /\ lastSig' = [lastSig EXCEPT ![threads[t].id] = threads[t].arg.i]
    /\ edges' = [edges EXCEPT ![threads[t].id] =
                    IF py_is_zero(func[pos].prev_state) /\ ~py_is_zero(threads[t].arg)
                    THEN @ + 1 ELSE @]
    /\ UNCHANGED <<module, drivers, mcp_drivers, stdout, call, ret,
                   issued, fires, negUsed, nEvents, loadFailed>>

\* The thread takes the outcome of its call and is free for the next.
ThreadReturn(t) ==
    /\ threads[t].pc = "done"
    /\ threads' = [threads EXCEPT ![t] = Idle]
    /\ UNCHANGED <<module, registries, stdout, call, ret, history>>

InitThreads == Init /\ module = "pyfunc"

NextThreads ==
    \E t \in Threads :
        \/ ThreadLoadAppend(t)
        \/ ThreadLoadReturn(t)
        \/ ThreadEventRead(t)
        \/ ThreadEventPrint(t)
        \/ ThreadEventWrite(t)
        \/ ThreadReturn(t)

SpecThreads == InitThreads /\ [][NextThreads]_vars

(***************************************************************************)
(* Properties.                                                             *)
(***************************************************************************)
RegLen ==
    CASE module = "pydriver" -> Len(drivers)
      [] module = "pyfunc" -> Len(func)
      [] module = "mcp3008" -> Len(mcp_drivers)

\* The "ok" and "err" of a result dict.
OkOf(v) == py_getitem(v, <<"ok">>).val
ErrOf(v) == py_getitem(v, <<"err">>).val

\* What each operation answers for an id it does not know.
UnknownId(op) ==
    CASE op = "name" ->
            Return(PyDict(<<Entry(<<"err">>, Str("Unknown id")), Entry(<<"ok">>, PyNone)>>))
      [] op = "event" -> Return(Str("Invalid id"))
      [] OTHER -> Return(Str("Unknown id"))

\* An outcome that describes an error: a str, or a result dict with "err" set.
IsError(r) ==
    /\ r.exc = ""
    /\ \/ r.val.t = "str"
       \/ r.val.t = "dict" /\ ErrOf(r.val).t = "str"

\* The step in which the host makes a call of `ops`.
Calls(ops) == call.op = "none" /\ call'.op \in ops

\* C1: every Const payload with a string name and a list of integers that
\* load_data accepted can be read back under the handle it was given: poll
\* returns the state (same integers, same order, same length) and name
\* returns the name, in every later state of the run.
C1_RoundTrip ==
    module = "pydriver" =>
        \A k \in 1..Len(issued) : \A nm \in Names, st \in IntStates :
            issued[k].data = ConstPayload(nm, st) =>
                /\ pydriver_poll(drivers, issued[k].h) = Return(IntList(st))
                /\ pydriver_name(drivers, issued[k].h).exc = ""
                /\ OkOf(pydriver_name(drivers, issued[k].h).val) = PyStr(nm)
                /\ ErrOf(pydriver_name(drivers, issued[k].h).val) = PyNone

\* Two instances are loaded, and a later poll of the first returns its state.
C1_Witness ==
    /\ module = "pydriver"
    /\ Len(issued) = 2
    /\ issued[1].data = ConstPayload(<<"Layer0">>, <<0, 1>>)
    /\ issued[2].data = ConstPayload(<<"a">>, <<0>>)
    /\ call.op = "poll" /\ call.id = issued[1].h
    /\ ret = Return(IntList(<<0, 1>>))

\* C2: handles are 0, 1, 2, ... in the order of the successful loads: a
\* load_data that returns a handle returns the number of successful loads
\* before it, which is the new registry size - 1; loads that failed in
\* between neither use up nor skip a handle.
C2_SequentialHandles ==
    /\ \A k \in 1..Len(issued) : issued[k].h = k - 1
    /\ Len(issued) = RegLen
    /\ (call.op = "load_data" /\ GaveHandle(ret)) => ret.val.i = RegLen - 1

\* A second successful load returns 1 although a load has failed.
C2_Witness ==
    /\ loadFailed
    /\ call.op = "load_data"
    /\ ret = Return(PyInt(1))
    /\ Len(issued) = 2

\* C3: as long as events carry valid handles and integer states, the lines
\* a function handle has printed number the 0 -> nonzero steps in the
\* states passed to it (the first compared with 0): a call fires exactly
\* when its state is nonzero and the state of the call before it was zero.
C3_EdgeTrigger ==
    (module = "pyfunc" /\ ~negUsed) =>
        \A h \in DOMAIN fires : fires[h] = edges[h]

\* A handle has fired twice: 0 -> nonzero, back to 0, nonzero again.
C3_Witness ==
    /\ module = "pyfunc" /\ ~negUsed
    /\ \E h \in DOMAIN fires : fires[h] = 2 /\ edges[h] = 2 /\ lastSig[h] # 0

\* C4: poll, name and event with a handle >= the registry size answer with
\* the unknown-id error, print nothing and leave every registry as it was.
C4_UnknownId ==
    [][(Calls({"poll", "name", "event"}) /\ call'.id >= RegLen) =>
          /\ ret' = UnknownId(call'.op)
          /\ UNCHANGED <<registries, stdout>>]_vars

\* An event that would fire on a known handle is refused for an unknown one.
C4_Witness ==
    /\ module = "pyfunc"
    /\ Len(func) = 1 /\ func[1].prev_state = PyInt(0)
    /\ call.op = "event" /\ call.id = 1 /\ call.arg = PyInt(5)
    /\ ret = Return(Str("Invalid id"))
    /\ stdout = <<>>

\* C5: poll, name and event with a negative handle answer with the
\* unknown-id error (they do not raise), print nothing and leave every
\* registry as it was.
C5_NegativeHandle ==
    [][(Calls({"poll", "name", "event"}) /\ call'.id < 0) =>
          /\ ret' = UnknownId(call'.op)
          /\ UNCHANGED <<registries, stdout>>]_vars

\* What poll(h) of the MCP3008 driver returns at index j when the inputs
\* read rw.
PollAt(drv, rw, h, j) == mcp3008_poll(drv, rw, h).val.a[j]

C7_MalformedAlwaysInvalid ==
    [][(Calls({"load_data"}) /\ module \in {"pydriver", "mcp3008"}
          /\ call'.data \in Malformed) =>
          /\ ret' = Return(Str("Invalid data"))
          /\ UNCHANGED registries]_vars

\* C7 as amended: a payload that does not parse makes a driver's load_data
\* return "Invalid data" when the type name is the supported one ("Const";
\* the MCP3008 driver takes no type name) and "Unknown driver" for any
\* other type name; the registry is unchanged in both cases.
C7_MalformedRejected ==
    [][(Calls({"load_data"}) /\ module \in {"pydriver", "mcp3008"}
          /\ call'.data \in Malformed) =>
          /\ ret' = IF module = "pydriver" /\ call'.name # <<"Const">>
                    THEN Return(Str("Unknown driver"))
                    ELSE Return(Str("Invalid data"))
          /\ UNCHANGED registries]_vars

\* A valid payload followed by a stray brace is refused by a registry that
\* already holds an instance.
C7_Witness ==
    /\ module = "pydriver"
    /\ Len(drivers) = 1
    /\ call.op = "load_data" /\ call.name = <<"Const">>
    /\ call.data = ConstPayload(<<"a">>, <<0>>) \o <<Tok("}")>>
    /\ ret = Return(Str("Invalid data"))

\* C8: a driver's load_data never raises: it returns a handle or an error
\* description, and for a payload that is not a map it returns an error
\* and the registry does not grow.
C8_LoadNeverRaises ==
    [][(Calls({"load_data"}) /\ module \in {"pydriver", "mcp3008"}) =>
          /\ GaveHandle(ret') \/ IsError(ret')
          /\ call'.data \in NonMap => (IsError(ret') /\ UNCHANGED registries)]_vars

\* C9: a map payload that lacks a required key (name or state for "Const";
\* any of the five keys for the MCP3008 driver) makes load_data return
\* "Missing fields in data", whatever the keys it has hold, and the
\* registry is unchanged.
C9_MissingFields ==
    [][(/\ Calls({"load_data"})
        /\ \/ module = "pydriver" /\ call'.name = <<"Const">> /\ call'.data \in ConstMissing
           \/ module = "mcp3008" /\ call'.data \in McpMissing) =>
          /\ ret' = Return(Str("Missing fields in data"))
          /\ UNCHANGED registries]_vars

\* {"state": [0]} is refused by a registry that already holds an instance.
C9_Witness ==
    /\ module = "pydriver"
    /\ Len(drivers) = 1
    /\ call.op = "load_data" /\ call.name = <<"Const">>
    /\ call.data = Dumps(PyDict(<<Entry(<<"state">>, IntList(<<0>>))>>))
    /\ ret = Return(Str("Missing fields in data"))

\* C10: a "Const" payload with both keys whose state holds an element that
\* is not an integer, or is not a list, or whose name is not a string, is
\* refused with a wrong-field-types error, the registry unchanged; no
\* stored state ever holds anything but integers.
C10_WrongTypesRejected ==
    [][(Calls({"load_data"}) /\ module = "pydriver" /\ call'.name = <<"Const">>
          /\ call'.data \in ConstWrong) =>
          /\ ret' \in {Return(Str("Wrong data field types")),
                       Return(Str("State must contain only ints"))}
          /\ UNCHANGED registries
          /\ \A k \in 1..Len(drivers') : \A h \in {k - 1} :
                \A j \in 1..Len(pydriver_poll(drivers', h).val.a) :
                    pydriver_poll(drivers', h).val.a[j].t = "int"]_vars

\* C11: a load_data of the example driver with a type name other than
\* "Const", or of the example function with one other than "PyPrint",
\* returns the module's unknown-type description ("Unknown driver",
\* "Unknown function") whatever the payload, parsable or not, and leaves
\* every registry as it was.
C11_UnknownType ==
    [][(/\ Calls({"load_data"})
        /\ \/ module = "pydriver" /\ call'.name # <<"Const">>
           \/ module = "pyfunc" /\ call'.name # <<"PyPrint">>) =>
          /\ ret' = Return(Str(IF module = "pydriver" THEN "Unknown driver"
                               ELSE "Unknown function"))
          /\ UNCHANGED <<registries, stdout>>]_vars

\* A payload that "Const" accepts is refused under the function's type
\* name by a registry that already holds an instance.
C11_Witness ==
    /\ module = "pydriver"
    /\ Len(drivers) = 1
    /\ call.op = "load_data" /\ call.name = <<"PyPrint">>
    /\ call.data = ConstPayload(<<"a">>, <<0>>)
    /\ ret = Return(Str("Unknown driver"))

\* Result helper functions of the interface templates.
ok(v) == IF v = PyNone THEN PyNone ELSE PyDict(<<Entry(<<"ok">>, v), Entry(<<"err">>, PyNone)>>)
err(e) == IF e = PyNone THEN PyNone ELSE PyDict(<<Entry(<<"ok">>, PyNone), Entry(<<"err">>, e)>>)

\* Whether v is one of the two variants, whatever the order of its keys.
IsResult(v) ==
    /\ v.t = "dict" /\ Len(v.a) = 2
    /\ {v.a[1].k, v.a[2].k} = {<<"ok">>, <<"err">>}
    /\ (OkOf(v) = PyNone) # (ErrOf(v) = PyNone)

\* C12: load_data, poll, name and event of the example modules and of the
\* MCP3008 driver return one of the two variants of the interface's
\* Result: an ok that holds the handle (int), the state (list) or the name
\* (str), or an err that holds a description (str); an event that
\* succeeds returns the ok without a value, which the helper ok(None)
\* renders as None.
C12_ResultVariants ==
    call.op \in {"load_data", "poll", "name", "event"} =>
        /\ ret.exc = ""
        /\ \/ IsResult(ret.val) /\ ErrOf(ret.val).t = "str"
           \/ /\ IsResult(ret.val)
              /\ OkOf(ret.val).t = CASE call.op = "load_data" -> "int"
                                     [] call.op = "poll" -> "list"
                                     [] call.op = "name" -> "str"
                                     [] OTHER -> "none"
           \/ call.op = "event" /\ ret.val = ok(PyNone)

\* C13: an event on a handle h of the function registry (0 <= h < its
\* size) leaves h's previous state equal to the state passed, whether the
\* call printed or not, and leaves h's data and the registry's size as
\* they were.
C13_PrevStateStored ==
    [][(Calls({"event"}) /\ call'.id >= 0 /\ call'.id < Len(func)) =>
          /\ Len(func') = Len(func)
          /\ func'[call'.id + 1].prev_state = call'.arg
          /\ func'[call'.id + 1].data = func[call'.id + 1].data]_vars

\* A second event on a handle, nonzero after nonzero, prints nothing and
\* is stored all the same.
C13_Witness ==
    /\ module = "pyfunc"
    /\ nEvents = 2 /\ ~negUsed
    /\ Len(stdout) = 1
    /\ call.op = "event" /\ call.id = 0 /\ call.arg = PyInt(0 - 3)
    /\ func[1].prev_state = PyInt(0 - 3)
    /\ lastSig[0] = 0 - 3

\* The registry of the loaded module.
Registry ==
    CASE module = "pydriver" -> drivers
      [] module = "pyfunc" -> func
      [] module = "mcp3008" -> mcp_drivers

\* C15: a handle h that load_data has returned stays inside its registry,
\* and the instance under it (state, name, data, previous state) is
\* changed by no step other than a call of event or set made with h: not
\* by a load_data, ended well or not, not by a poll or a name, and not by
\* an event made with another id.
C15_Isolation ==
    [][\A k \in 1..Len(issued) :
          \/ call'.op \in {"event", "set"} /\ call'.id = issued[k].h
          \/ /\ issued[k].h + 1 \in 1..Len(Registry')
             /\ Registry'[issued[k].h + 1] = Registry[issued[k].h + 1]]_vars

\* C16: the size of the module's registry is the number of load_data calls
\* that have returned a handle: a step adds one to it when it is such a
\* call and adds nothing when it is any other: a load_data that returned
\* an error or raised, a poll, a name, a set, an event.
C16_RegistrySize ==
    [][/\ RegLen' = RegLen + (IF Calls({"load_data"}) /\ GaveHandle(ret') THEN 1 ELSE 0)
       /\ Len(issued') = RegLen'
       /\ Len(drivers') >= Len(drivers)
       /\ Len(func') >= Len(func)
       /\ Len(mcp_drivers') >= Len(mcp_drivers)]_vars

\* A load whose channels the converter refuses raises, and the registry
\* keeps the one instance it had.
C16_Witness ==
    /\ module = "mcp3008"
    /\ call.op = "load_data" /\ ret = Raise("GPIOZeroError")
    /\ Len(mcp_drivers) = 1 /\ Len(issued) = 1

\* C17: a load_data("PyPrint", d) appends (d, 0) to the function registry
\* and prints nothing.  For an event on a handle h of that registry, with
\* no negative id used so far: when no nonzero state has been passed to h
\* before and the state is nonzero, the call prints a line; and a line
\* that a call prints is "PyPrint: " followed by the d of the load that
\* returned h.
C17_LoadThenFire ==
    [][/\ (Calls({"load_data"}) /\ module = "pyfunc" /\ GaveHandle(ret')) =>
             /\ func' = Append(func, [data |-> call'.arg, prev_state |-> PyInt(0)])
             /\ ret'.val.i = Len(func)
             /\ stdout' = stdout
       /\ (Calls({"event"}) /\ call'.id >= 0 /\ call'.id < Len(func)) =>
             /\ (~negUsed /\ edges[call'.id] = 0 /\ ~py_is_zero(call'.arg)) =>
                    Len(stdout') = Len(stdout) + 1
             /\ stdout' # stdout =>
                    \A k \in 1..Len(issued) : issued[k].h = call'.id =>
                        stdout' = Append(stdout, <<"PyPrint: ">> \o issued[k].arg.s)]_vars

\* The second of two instances fires first, after a zero state, and
\* prints its own data.
C17_Witness ==
    /\ module = "pyfunc" /\ ~negUsed
    /\ Len(issued) = 2
    /\ issued[1].arg = PyStr(<<"hi">>) /\ issued[2].arg = PyStr(<<"yo">>)
    /\ nEvents = 2
    /\ call.op = "event" /\ call.id = 1 /\ call.arg = PyInt(5)
    /\ stdout = <<<<"PyPrint: ", "yo">>>>

\* C19: whatever the caller does to a list that poll handed it, poll(h)
\* returns the state of h's payload as load_data parsed it: the same
\* elements and the same length.
C19_PollCopy ==
    module = "pydriver" =>
        \A k \in 1..Len(issued) :
            pydriver_poll(drivers, issued[k].h) =
                py_getitem(json_loads(issued[k].data).val, <<"state">>)

\* C20: when the states passed to event are lists of integers, and no
\* negative id has been used, an event on a handle of the function
\* registry prints a line exactly when its list holds a nonzero element
\* and the list of the event before it on that handle held none (or it is
\* the first event on the handle): a list of zeros never prints, and a
\* nonzero list prints again after a list of zeros.
C20_ListEdge ==
    [][(Calls({"event"}) /\ call'.arg.t = "list" /\ ~negUsed
          /\ call'.id >= 0 /\ call'.id < Len(func)) =>
          (Len(stdout') = Len(stdout) + 1) =
              (AnyNonzero(call'.arg) /\ lastSig[call'.id] = 0)]_vars

\* C14: with several threads inside load_data at once, the handles that
\* load_data has returned are all different, and each is the position of
\* the instance that holds the data of the call it was returned to.
C14_AtomicLoad ==
    \A k \in 1..Len(issued) :
        /\ \A l \in 1..Len(issued) : k # l => issued[k].h # issued[l].h
        /\ issued[k].h + 1 \in 1..Len(func)
        /\ func[issued[k].h + 1].data = issued[k].arg

\* C18: with several threads inside event at once, when no event is under
\* way the lines printed for a handle number the times its stored
\* previous state went from zero to nonzero: two nonzero events that
\* arrive while it is zero print one line between them.
C18_OneFiringPerEdge ==
    (\A t \in Threads : threads[t].pc \in {"idle", "done", "appended"}) =>
        \A h \in DOMAIN fires : fires[h] = edges[h]

====
